---- MODULE Spec2Model ----
(***************************************************************************)
(* Resilient chunked audio generation of blog-cloudflare-listen.           *)
(*                                                                         *)
(* The model follows the audio route (app/api/audio/[...slug]/route.ts),   *)
(* generateAudioResilient and splitTextIntoChunks (lib/workers-ai.ts), the *)
(* chunk manager (lib/audio-chunk-manager.ts) and validateAudioResponse    *)
(* (lib/audio-debug-helpers.ts).  Every awaited R2 operation and every     *)
(* awaited model call is one atomic step of the request that issues it;    *)
(* requests for the same article interleave at those steps.  The           *)
(* lastUpdated timestamp of the metadata is not modelled.                  *)
(***************************************************************************)
EXTENDS Integers, Sequences, FiniteSets, TLC

(***************************************************************************)
(* Bounds and program constants                                            *)
(***************************************************************************)

\* The two request slots that may run concurrently for the article.
Procs == {1, 2}

\* How many times a running request may be cut short (worker killed).
MaxInterrupts == 1

\* How many chunk keys of the article the bucket is modelled for; no article
\* text below splits into more chunks.
MaxChunks == 4

\* MAX_CHUNK_SIZE of workers-ai.ts, scaled from 1250 characters down to 4 so
\* that texts over the small alphabet below span several chunks and two of
\* the shortest sentences still fit into one chunk.
MAX_CHUNK_SIZE == 4

Terminals == {".", "!", "?"}
Whitespace == {" "}

\* Article texts, as sequences of characters.
TextOne == <<"a", ".">>
TextTwo == <<"a", "a", ".", "b", "b", ".">>
TextSpaced == <<"a", ".", " ", "b", ".">>
TextThree == <<"a", "a", ".", "a", "b", ".", "b", "a", ".">>
TextFour == <<"a", "a", ".", "a", "b", ".", "b", "a", ".", "b", "b", ".">>

\* Texts of the specification with two concurrent requests.
ConcurrentTexts == {TextOne, TextTwo}
\* Texts of the specification with one request at a time.
SequentialTexts == {TextTwo, TextSpaced, TextThree, TextFour}
\* The text of the article before it is parsed again, and what parsing it
\* again may give: fewer chunks, or as many chunks with other text.
OriginalText == TextTwo
ReparsedTexts == {TextOne, TextSpaced}

\* Texts given to the chunker on its own: every text of at most MaxTextLen
\* characters over ChunkerAlphabet.
MaxTextLen == 7
ChunkerAlphabet == {"a", ".", "?", " "}
ChunkerTexts == UNION {[1..n -> ChunkerAlphabet] : n \in 0..MaxTextLen}

\* How many requests the audio player is followed for.
MaxIssued == 5

(***************************************************************************)
(* Sequence helpers                                                        *)
(***************************************************************************)

\* Array.prototype.includes on an index array.
Includes(seq, x) == \E k \in 1..Len(seq) : seq[k] = x

SeqToSet(seq) == {seq[k] : k \in 1..Len(seq)}

RECURSIVE SortedSeqOf(_)
\* The elements of a finite set of integers in ascending order.
SortedSeqOf(S) ==
    IF S = {} THEN <<>>
    ELSE LET m == CHOOSE x \in S : \A y \in S : x <= y
         IN <<m>> \o SortedSeqOf(S \ {m})

RECURSIVE InsertSorted(_, _)
InsertSorted(sorted, x) ==
    IF sorted = <<>> THEN <<x>>
    ELSE IF x < Head(sorted) THEN <<x>> \o sorted
    ELSE <<Head(sorted)>> \o InsertSorted(Tail(sorted), x)

RECURSIVE SortAscending(_)
\* Array.prototype.sort((a, b) => a - b)
SortAscending(seq) ==
    IF seq = <<>> THEN <<>>
    ELSE InsertSorted(SortAscending(SubSeq(seq, 1, Len(seq) - 1)), seq[Len(seq)])

RECURSIVE Flatten(_)
\* Concatenation of a sequence of sequences, in order.
Flatten(seqs) ==
    IF seqs = <<>> THEN <<>> ELSE Head(seqs) \o Flatten(Tail(seqs))

(***************************************************************************)
(* Chunker: splitTextIntoChunks                                            *)
(***************************************************************************)

\* The first position holding a non-terminal character (Len + 1 if none): a
\* match of /[^.!?]+[.!?]+/ cannot start on a terminal character.
FirstNonTerminal(text) ==
    LET c == {q \in 1..Len(text) : text[q] \notin Terminals}
    IN IF c = {} THEN Len(text) + 1 ELSE CHOOSE q \in c : \A r \in c : q <= r

\* Where the matches end: the last character of every run of terminal
\* characters that follows a non-terminal character ([.!?]+ is greedy).
MatchEnds(text) ==
    {e \in FirstNonTerminal(text)..Len(text) :
        /\ text[e] \in Terminals
        /\ (e = Len(text) \/ text[e + 1] \notin Terminals)}

\* text.match(/[^.!?]+[.!?]+/g): the successive matches.  The first starts at
\* the first non-terminal character, each next one right after the previous one;
\* characters after the last terminal run belong to no match.
MatchSentences(text) ==
    LET ends == MatchEnds(text)
        EndAt(k) == CHOOSE e \in ends : Cardinality({x \in ends : x <= e}) = k
    IN [k \in 1..Cardinality(ends) |->
           SubSeq(text, IF k = 1 THEN FirstNonTerminal(text) ELSE EndAt(k - 1) + 1,
                  EndAt(k))]

\* text.match(...) || [text]
Sentences(text) ==
    LET m == MatchSentences(text)
    IN IF m = <<>> THEN <<text>> ELSE m

RECURSIVE TrimLeft(_)
TrimLeft(s) ==
    IF s # <<>> /\ Head(s) \in Whitespace THEN TrimLeft(Tail(s)) ELSE s

RECURSIVE TrimRight(_)
TrimRight(s) ==
    IF s # <<>> /\ s[Len(s)] \in Whitespace
    THEN TrimRight(SubSeq(s, 1, Len(s) - 1)) ELSE s

\* String.prototype.trim
Trim(s) == TrimRight(TrimLeft(s))

\* A loop that never starts a new chunk.
AccumulateUnbounded(sentences, currentChunk, chunks) ==
    IF Flatten(sentences) = <<>> THEN chunks
    ELSE Append(chunks, Trim(currentChunk \o Flatten(sentences)))

RECURSIVE Accumulate(_, _, _)
\* The loop of splitTextIntoChunks over the remaining sentences.
Accumulate(sentences, currentChunk, chunks) ==
    IF sentences = <<>>
    THEN IF currentChunk # <<>> THEN Append(chunks, Trim(currentChunk)) ELSE chunks
    ELSE LET sentence == Head(sentences)
         IN IF Len(currentChunk \o sentence) <= MAX_CHUNK_SIZE
            THEN Accumulate(Tail(sentences), currentChunk \o sentence, chunks)
            ELSE Accumulate(Tail(sentences), sentence,
                            IF currentChunk # <<>>
                            THEN Append(chunks, Trim(currentChunk)) ELSE chunks)

splitTextIntoChunks(text) == Accumulate(Sentences(text), <<>>, <<>>)

(***************************************************************************)
(* Synthesis: the model call and validateAudioResponse                     *)
(***************************************************************************)

\* The byte the synthesis model produces for one character.
CharCode(c) ==
    CASE c = "a" -> 1 [] c = "b" -> 2 [] c = "." -> 3 [] c = " " -> 4
      [] OTHER -> 5

\* The audio of a text: one byte per character.
SynthBytes(text) == [k \in 1..Len(text) |-> CharCode(text[k])]

\* The shapes env.AI.run may answer with for `text`.
AIResponses(text) ==
    LET bytes == SynthBytes(text)
        half == Len(bytes) \div 2
    IN { [kind |-> "ArrayBuffer", bytes |-> bytes, segments |-> <<>>],
         [kind |-> "ReadableStream", bytes |-> <<>>,
          segments |-> <<SubSeq(bytes, 1, half), SubSeq(bytes, half + 1, Len(bytes))>>],
         [kind |-> "null", bytes |-> <<>>, segments |-> <<>>],
         [kind |-> "error", bytes |-> <<>>, segments |-> <<>>] }

\* validateAudioResponse: ok with the buffer, or a thrown error.
validateAudioResponse(response) ==
    CASE response.kind = "ArrayBuffer" -> [ok |-> TRUE, bytes |-> response.bytes]
      [] response.kind = "ReadableStream" ->
            [ok |-> TRUE, bytes |-> Flatten(response.segments)]
      [] OTHER -> [ok |-> FALSE, bytes |-> <<>>]

\* generateAudioWithChunking: the text is split as splitTextIntoChunks splits
\* it, every chunk is synthesized, and the audio is the concatenation (any
\* chunk failing makes the whole call throw).
generateAudioWithChunking(text) ==
    LET parts == splitTextIntoChunks(text)
    IN Flatten([k \in 1..Len(parts) |-> SynthBytes(parts[k])])

\* generateAudio when it succeeds: one synthesis of the whole text, or the
\* chunking strategy for a text longer than MAX_CHUNK_SIZE.
generateAudio(text) ==
    IF Len(text) > MAX_CHUNK_SIZE THEN generateAudioWithChunking(text) ELSE SynthBytes(text)

(***************************************************************************)
(* Chunk manager: pure parts                                               *)
(***************************************************************************)

\* An R2 object that does not exist (bucket.get returns null).
NoObject == [present |-> FALSE, bytes |-> <<>>]
Object(bytes) == [present |-> TRUE, bytes |-> bytes]

\* No audio-metadata.json.
NoMetadata ==
    [present |-> FALSE, totalChunks |-> 0, completedChunks |-> <<>>,
     chunkSizes |-> <<>>, textChunks |-> <<>>]

\* The chunk indices the bucket is modelled for.
ChunkIndex == 0..(MaxChunks - 1)

NoBuffers == [i \in ChunkIndex |-> NoObject]

\* combineAudioChunks
combineAudioChunksReversed(audioChunks) ==
    Flatten([k \in 1..Len(audioChunks) |-> audioChunks[Len(audioChunks) + 1 - k]])

combineAudioChunks(audioChunks) ==
    IF Len(audioChunks) = 0 THEN <<>>
    ELSE IF Len(audioChunks) = 1 THEN audioChunks[1]
    ELSE Flatten(audioChunks)

\* The metadata initializeAudioMetadata stores.
InitialMetadata(textChunks) ==
    [present |-> TRUE, totalChunks |-> Len(textChunks), completedChunks |-> <<>>,
     chunkSizes |-> [k \in 1..Len(textChunks) |-> 0], textChunks |-> textChunks]

\* chunkSizes[chunkIndex] = chunkSize on a JavaScript array (holes are -1).
SetSize(chunkSizes, chunkIndex, chunkSize) ==
    [k \in 1..(IF chunkIndex + 1 > Len(chunkSizes) THEN chunkIndex + 1 ELSE Len(chunkSizes)) |->
        IF k = chunkIndex + 1 THEN chunkSize
        ELSE IF k <= Len(chunkSizes) THEN chunkSizes[k] ELSE -1]

\* An update that pushes the index without looking for it first.
UpdatedMetadataPushing(metadata, chunkIndex, chunkSize) ==
    [metadata EXCEPT
        !.completedChunks = SortAscending(Append(@, chunkIndex)),
        !.chunkSizes = SetSize(@, chunkIndex, chunkSize)]

\* The metadata updateChunkMetadata writes back, from the metadata it read.
UpdatedMetadata(metadata, chunkIndex, chunkSize) ==
    [metadata EXCEPT
        !.completedChunks =
            IF Includes(metadata.completedChunks, chunkIndex) THEN @
            ELSE SortAscending(Append(@, chunkIndex)),
        !.chunkSizes = SetSize(@, chunkIndex, chunkSize)]

\* A status for an existing audio.mp3 that leaves its bytes out.
CompleteStatusWithoutAudio(bytes) ==
    [isComplete |-> TRUE, availableChunks |-> <<>>, missingChunks |-> <<>>,
     totalChunks |-> 1, hasAudio |-> FALSE, audio |-> <<>>]

\* Status when audio.mp3 exists.
CompleteStatus(bytes) ==
    [isComplete |-> TRUE, availableChunks |-> <<>>, missingChunks |-> <<>>,
     totalChunks |-> 1, hasAudio |-> TRUE, audio |-> bytes]

\* Status when there is no metadata (and the one the catch block returns).
NotStartedStatus ==
    [isComplete |-> FALSE, availableChunks |-> <<>>, missingChunks |-> <<>>,
     totalChunks |-> 0, hasAudio |-> FALSE, audio |-> <<>>]

\* missingChunks: the indices below totalChunks whose get returned null.
MissingOf(metadata, buffers) ==
    SortedSeqOf({i \in 0..(metadata.totalChunks - 1) :
                    i \notin DOMAIN buffers \/ ~buffers[i].present})

RECURSIVE ContiguousFrom(_, _)
\* The loop over availableChunkBuffers: buffers from index i up to the first gap.
ContiguousFrom(buffers, i) ==
    IF i \in DOMAIN buffers /\ buffers[i].present
    THEN <<buffers[i].bytes>> \o ContiguousFrom(buffers, i + 1)
    ELSE <<>>

\* The tail of getAudioChunkStatus once every chunk was looked up.
ChunkStatusEager(metadata, buffers) ==
    LET missingChunks == MissingOf(metadata, buffers)
        availableChunks ==
            SelectSeq(metadata.completedChunks, LAMBDA c : ~Includes(missingChunks, c))
        contiguousChunks == ContiguousFrom(buffers, 0)
        hasAudio == Len(availableChunks) > 0 /\ Len(contiguousChunks) > 0
    IN [isComplete |-> Len(availableChunks) > 0,
        availableChunks |-> availableChunks,
        missingChunks |-> missingChunks,
        totalChunks |-> metadata.totalChunks,
        hasAudio |-> hasAudio,
        audio |-> IF hasAudio THEN combineAudioChunks(contiguousChunks) ELSE <<>>]

ChunkStatus(metadata, buffers) ==
    LET missingChunks == MissingOf(metadata, buffers)
        availableChunks ==
            SelectSeq(metadata.completedChunks, LAMBDA c : ~Includes(missingChunks, c))
        contiguousChunks == ContiguousFrom(buffers, 0)
        hasAudio == Len(availableChunks) > 0 /\ Len(contiguousChunks) > 0
    IN [isComplete |-> Len(missingChunks) = 0,
        availableChunks |-> availableChunks,
        missingChunks |-> missingChunks,
        totalChunks |-> metadata.totalChunks,
        hasAudio |-> hasAudio,
        audio |-> IF hasAudio THEN combineAudioChunks(contiguousChunks) ELSE <<>>]

(***************************************************************************)
(* State                                                                   *)
(***************************************************************************)

VARIABLES
    article,      \* the text extracted from blogs/{slug}/article.json
    procs,        \* the request slots in use
    complete,     \* blogs/{slug}/audio.mp3
    meta,         \* blogs/{slug}/audio-metadata.json
    chunks,       \* blogs/{slug}/audio-chunk-{i}.mp3, by index i
    interrupts,   \* how many requests were cut short, or bucket writes failed, so far
    pc,           \* where each request stands
    caller,       \* who called getAudioChunkStatus: "route", "gen" or "regen"
    st,           \* the last AudioChunkStatus a request obtained
    smeta,        \* getAudioChunkStatus: the metadata it parsed
    si,           \* getAudioChunkStatus: loop index i
    sbufs,        \* getAudioChunkStatus: availableChunkBuffers
    text,         \* generateAudioResilient: its text argument
    textChunks,   \* generateAudioResilient: textChunks
    dispatched,   \* generateAudioResilient: missingChunks, the indices it maps over
    tpc,          \* per chunk task: "none", "ai", "store", "mget", "mput", "ok", "fail"
    tbuf,         \* per chunk task: audioBuffer
    tmeta,        \* per chunk task: the metadata updateChunkMetadata read
    ftotal,       \* storeCompleteAudio: metadata.totalChunks
    fi,           \* storeCompleteAudio: loop index i
    resp,         \* the HTTP response of the request, once it has answered
    retryCount,   \* AudioPlayer: the retryCount state
    retryTimeout, \* AudioPlayer: the timer held by retryTimeoutRef
    fetches,      \* AudioPlayer: the calls of loadAudio waiting for their response
    chunkInfo,    \* AudioPlayer: the chunkInfo state: "none", "partial", "complete"
    loading,      \* AudioPlayer: the audio element has a loadedmetadata event to deliver
    issued,       \* how many requests the player has sent
    scheduled,    \* the delays of the timers the player has set, in order
    completeSeen, \* the player has received a complete response
    rendered,     \* AudioPlayer: the retryCount of the render whose effects ran last
    committed,    \* AudioPlayer: the state values of the render React committed last
    listener,     \* AudioPlayer: the chunkInfo the registered handleLoadedMetadata holds
    blobs,        \* AudioPlayer: the calls of loadAudio waiting for response.blob()
    isRetrying,   \* AudioPlayer: the isRetrying state
    faulted,      \* the chunk indices for which a bucket write has failed
    prev,         \* the response each client got to its request before the present one
    page          \* ArticlePage: where its background processing stands, and its article

store == <<complete, meta, chunks>>
statusLocals == <<caller, st, smeta, si, sbufs>>
genLocals == <<text, textChunks, dispatched>>
taskLocals == <<tpc, tbuf, tmeta>>
finLocals == <<ftotal, fi>>
clientVars == <<retryCount, retryTimeout, fetches, chunkInfo, loading, issued, scheduled,
               completeSeen, rendered, committed, listener, blobs, isRetrying>>
vars == <<article, procs, complete, meta, chunks, interrupts, pc, caller, st, smeta,
          si, sbufs, text, textChunks, dispatched, tpc, tbuf, tmeta, ftotal, fi,
          resp, retryCount, retryTimeout, fetches, chunkInfo, loading, issued,
          scheduled, completeSeen, rendered, committed, listener, blobs, isRetrying,
          faulted, prev, page>>

\* No response yet (code 0).
NoResponse ==
    [code |-> 0, audioStatus |-> "none", cacheControl |-> "none", hasBody |-> FALSE,
     body |-> <<>>, totalChunks |-> 0, availableChunks |-> <<>>, missingChunks |-> <<>>]

\* retryTimeoutRef holds no pending timer.
NoTimeout == [set |-> FALSE, delay |-> 0, count |-> 0]

NoTasks == [i \in ChunkIndex |-> "none"]
NoTaskBuffers == [i \in ChunkIndex |-> <<>>]
NoTaskMetadata == [i \in ChunkIndex |-> NoMetadata]

InitWith(texts, slots) ==
    /\ article \in texts
    /\ procs = slots
    /\ complete = NoObject
    /\ meta = NoMetadata
    /\ chunks = [i \in ChunkIndex |-> NoObject]
    /\ interrupts = 0
    /\ pc = [p \in Procs |-> "idle"]
    /\ caller = [p \in Procs |-> "route"]
    /\ st = [p \in Procs |-> NotStartedStatus]
    /\ smeta = [p \in Procs |-> NoMetadata]
    /\ si = [p \in Procs |-> 0]
    /\ sbufs = [p \in Procs |-> NoBuffers]
    /\ text = [p \in Procs |-> <<>>]
    /\ textChunks = [p \in Procs |-> <<>>]
    /\ dispatched = [p \in Procs |-> <<>>]
    /\ tpc = [p \in Procs |-> NoTasks]
    /\ tbuf = [p \in Procs |-> NoTaskBuffers]
    /\ tmeta = [p \in Procs |-> NoTaskMetadata]
    /\ ftotal = [p \in Procs |-> 0]
    /\ fi = [p \in Procs |-> 0]
    /\ resp = [p \in Procs |-> NoResponse]
    /\ retryCount = 0
    /\ retryTimeout = NoTimeout
    /\ fetches = {}
    /\ chunkInfo = "none"
    /\ loading = FALSE
    /\ issued = 0
    /\ scheduled = <<>>
    /\ completeSeen = FALSE
    /\ rendered = 0
    /\ committed = [retryCount |-> 0, chunkInfo |-> "none", isRetrying |-> FALSE]
    /\ listener = "none"
    /\ blobs = {}
    /\ isRetrying = FALSE
    /\ page = [pc |-> "background", article |-> article]
    /\ faulted = {}
    /\ prev = [p \in Procs |-> NoResponse]

\* Two requests for the same article may overlap.
Init == InitWith(ConcurrentTexts, Procs)

\* One request at a time.
InitSeq == InitWith(SequentialTexts, {1})

\* Two callers of a one-chunk article.
InitOne == InitWith({TextOne}, Procs)

\* Two callers of the article that will be parsed again.
InitReparse == InitWith({OriginalText}, Procs)

\* One caller at a time of the article that will be parsed again.
InitReparseSeq == InitWith({OriginalText}, {1})

\* The audio player of one page, with the endpoint's answers left open.
InitPlayer == InitWith({TextTwo}, {})

\* The chunker on its own, for every text of the bounded alphabet.
InitChunker == InitWith(ChunkerTexts, {1})

(***************************************************************************)
(* The audio route: responses                                              *)
(***************************************************************************)

\* A response to a found audio.mp3 that is labelled as partial content.
CachedResponseAsPartial(bytes) ==
    [code |-> 206, audioStatus |-> "partial", cacheControl |-> "short", hasBody |-> TRUE,
     body |-> bytes, totalChunks |-> 1, availableChunks |-> <<0>>, missingChunks |-> <<>>]

\* route.ts, audio.mp3 found by the route itself.
CachedResponse(bytes) ==
    [code |-> 200, audioStatus |-> "complete", cacheControl |-> "long", hasBody |-> TRUE,
     body |-> bytes, totalChunks |-> 1, availableChunks |-> <<0>>, missingChunks |-> <<>>]

\* route.ts, the chunk status is complete and carries audio.
AssembledResponse(status) ==
    [code |-> 200, audioStatus |-> "complete", cacheControl |-> "long", hasBody |-> TRUE,
     body |-> status.audio, totalChunks |-> status.totalChunks,
     availableChunks |-> status.availableChunks, missingChunks |-> <<>>]

\* A route that answers 206 with an empty body when result.audio is null.
GenerationResponseLenient(result) ==
    [code |-> IF result.isComplete THEN 200 ELSE 206,
     audioStatus |-> IF result.isComplete THEN "complete" ELSE "partial",
     cacheControl |-> IF result.isComplete THEN "long" ELSE "short",
     hasBody |-> TRUE, body |-> result.audio, totalChunks |-> result.totalChunks,
     availableChunks |-> result.availableChunks,
     missingChunks |-> result.missingChunks]

\* A route that labels every audio body as complete.
GenerationResponseAlwaysComplete(result) ==
    IF ~result.hasAudio
    THEN [code |-> 500, audioStatus |-> "failure", cacheControl |-> "none",
          hasBody |-> FALSE, body |-> <<>>, totalChunks |-> result.totalChunks,
          availableChunks |-> result.availableChunks,
          missingChunks |-> result.missingChunks]
    ELSE [code |-> 200, audioStatus |-> "complete", cacheControl |-> "long",
          hasBody |-> TRUE, body |-> result.audio, totalChunks |-> result.totalChunks,
          availableChunks |-> result.availableChunks,
          missingChunks |-> result.missingChunks]

\* route.ts after generateAudioResilient: 500 when result.audio is null, else
\* 200 or 206.  For a 500, availableChunks and missingChunks are the
\* successfulChunks and failedChunks of the diagnostic body.
GenerationResponse(result) ==
    IF ~result.hasAudio
    THEN [code |-> 500, audioStatus |-> "failure", cacheControl |-> "none",
          hasBody |-> FALSE, body |-> <<>>, totalChunks |-> result.totalChunks,
          availableChunks |-> result.availableChunks,
          missingChunks |-> result.missingChunks]
    ELSE [code |-> IF result.isComplete THEN 200 ELSE 206,
          audioStatus |-> IF result.isComplete THEN "complete" ELSE "partial",
          cacheControl |-> IF result.isComplete THEN "long" ELSE "short",
          hasBody |-> TRUE, body |-> result.audio, totalChunks |-> result.totalChunks,
          availableChunks |-> result.availableChunks,
          missingChunks |-> result.missingChunks]

\* The request of slot p answers with r and ends.
Answer(p, r) ==
    /\ pc' = [pc EXCEPT ![p] = "idle"]
    /\ resp' = [resp EXCEPT ![p] = r]
    /\ st' = [st EXCEPT ![p] = NotStartedStatus]

(***************************************************************************)
(* generateAudioResilient: dispatch                                        *)
(***************************************************************************)

\* The indices generateAudioResilient maps over (its local missingChunks).
DispatchSetCapped(status, chunkTexts) ==
    LET all == IF Len(status.missingChunks) > 0 THEN status.missingChunks
               ELSE [k \in 1..Len(chunkTexts) |-> k - 1]
    IN SubSeq(all, 1, IF Len(all) < 3 THEN Len(all) ELSE 3)

DispatchSet(status, chunkTexts) ==
    IF Len(status.missingChunks) > 0 THEN status.missingChunks
    ELSE [k \in 1..Len(chunkTexts) |-> k - 1]

\* A chunk task up to its first await: it fails at once without chunk text.
TaskStart(chunkTexts, chunkIndex) ==
    IF chunkIndex + 1 <= Len(chunkTexts) /\ chunkTexts[chunkIndex + 1] # <<>>
    THEN "ai" ELSE "fail"

\* missingChunks.map(async ...): one task per index, each run up to its first await.
Dispatch(p, status) ==
    LET split == splitTextIntoChunks(text[p])
        d == DispatchSet(status, split)
    IN /\ textChunks' = [textChunks EXCEPT ![p] = split]
       /\ UNCHANGED text
       /\ dispatched' = [dispatched EXCEPT ![p] = d]
       /\ tpc' = [tpc EXCEPT ![p] =
                    [i \in ChunkIndex |->
                        IF Includes(d, i) THEN TaskStart(split, i) ELSE "none"]]
       /\ pc' = [pc EXCEPT ![p] = "g_batch"]

(***************************************************************************)
(* getAudioChunkStatus, one bucket.get per step, and what its caller does  *)
(* with the status before its next await                                   *)
(***************************************************************************)

\* route.ts: serve the assembled chunks when complete, else go on to read the
\* article and generate.
ContinueRoute(p, status) ==
    IF status.isComplete /\ status.hasAudio
    THEN /\ Answer(p, AssembledResponse(status))
         /\ UNCHANGED <<text, textChunks, dispatched, tpc>>
    ELSE /\ pc' = [pc EXCEPT ![p] = "r_article"]
         /\ st' = [st EXCEPT ![p] = status]
         /\ UNCHANGED <<resp, text, textChunks, dispatched, tpc>>

\* generateAudioResilient after its first status: return complete audio;
\* without metadata, initialize it next; else start the tasks.
ContinueGen(p, status) ==
    IF status.isComplete /\ status.hasAudio
    THEN /\ Answer(p, GenerationResponse(status))
         /\ UNCHANGED <<text, textChunks, dispatched, tpc>>
    ELSE IF status.totalChunks = 0
    THEN /\ pc' = [pc EXCEPT ![p] = "g_init"]
         /\ st' = [st EXCEPT ![p] = status]
         /\ UNCHANGED <<resp, text, textChunks, dispatched, tpc>>
    ELSE /\ Dispatch(p, status)
         /\ st' = [st EXCEPT ![p] = status]
         /\ UNCHANGED resp

\* generateAudioResilient after its second status: finalize when complete
\* with audio, else return what there is to the route, which answers.
ContinueRegen(p, status) ==
    IF status.isComplete /\ status.hasAudio
    THEN /\ pc' = [pc EXCEPT ![p] = "f_put"]
         /\ st' = [st EXCEPT ![p] = status]
         /\ UNCHANGED <<resp, text, textChunks, dispatched, tpc>>
    ELSE /\ Answer(p, GenerationResponse(status))
         /\ UNCHANGED <<text, textChunks, dispatched, tpc>>

\* getAudioChunkStatus returns status to its caller.
StatusReturn(p, status) ==
    /\ IF caller[p] = "route" THEN ContinueRoute(p, status)
       ELSE IF caller[p] = "gen" THEN ContinueGen(p, status)
       ELSE ContinueRegen(p, status)
    /\ smeta' = [smeta EXCEPT ![p] = NoMetadata]
    /\ si' = [si EXCEPT ![p] = 0]
    /\ sbufs' = [sbufs EXCEPT ![p] = NoBuffers]

\* bucket.get(audio.mp3)
StatusGetComplete(p) ==
    /\ pc[p] = "s_complete"
    /\ IF complete.present
       THEN StatusReturn(p, CompleteStatus(complete.bytes))
       ELSE /\ pc' = [pc EXCEPT ![p] = "s_meta"]
            /\ UNCHANGED <<st, smeta, si, sbufs, resp, text, textChunks, dispatched,
                           tpc>>
    /\ UNCHANGED <<article, procs, clientVars, faulted, prev, page, store, interrupts, caller, tbuf, tmeta, finLocals>>

\* bucket.get(audio-metadata.json)
StatusGetMetadata(p) ==
    /\ pc[p] = "s_meta"
    /\ IF ~meta.present
       THEN StatusReturn(p, NotStartedStatus)
       ELSE IF meta.totalChunks = 0
       THEN StatusReturn(p, ChunkStatus(meta, NoBuffers))
       ELSE /\ pc' = [pc EXCEPT ![p] = "s_chunk"]
            /\ smeta' = [smeta EXCEPT ![p] = meta]
            /\ si' = [si EXCEPT ![p] = 0]
            /\ UNCHANGED <<st, sbufs, resp, text, textChunks, dispatched, tpc>>
    /\ UNCHANGED <<article, procs, clientVars, faulted, prev, page, store, interrupts, caller, tbuf, tmeta, finLocals>>

\* bucket.get(audio-chunk-i.mp3) of the loop; after the last one, the status.
StatusGetChunk(p) ==
    /\ pc[p] = "s_chunk"
    /\ LET i == si[p]
           buffers == [sbufs[p] EXCEPT ![i] = chunks[i]]
       IN IF i + 1 < smeta[p].totalChunks
          THEN /\ sbufs' = [sbufs EXCEPT ![p] = buffers]
               /\ si' = [si EXCEPT ![p] = i + 1]
               /\ UNCHANGED <<pc, st, smeta, resp, text, textChunks, dispatched, tpc>>
          ELSE StatusReturn(p, ChunkStatus(smeta[p], buffers))
    /\ UNCHANGED <<article, procs, clientVars, faulted, prev, page, store, interrupts, caller, tbuf, tmeta, finLocals>>

(***************************************************************************)
(* GET /api/audio/{slug}                                                   *)
(***************************************************************************)

\* A client requests the audio.
StartRequest(p) ==
    /\ p \in procs
    /\ pc[p] = "idle"
    /\ pc' = [pc EXCEPT ![p] = "r_complete"]
    /\ resp' = [resp EXCEPT ![p] = NoResponse]
    /\ text' = [text EXCEPT ![p] = <<>>]
    /\ textChunks' = [textChunks EXCEPT ![p] = <<>>]
    /\ dispatched' = [dispatched EXCEPT ![p] = <<>>]
    /\ tpc' = [tpc EXCEPT ![p] = NoTasks]
    /\ UNCHANGED <<article, procs, clientVars, faulted, prev, page, store, interrupts, statusLocals, tbuf, tmeta,
                   finLocals>>

\* A client requests the audio again and keeps in mind the response it got to
\* its last answered request.
StartNextRequest(p) ==
    /\ p \in procs
    /\ pc[p] = "idle"
    /\ pc' = [pc EXCEPT ![p] = "r_complete"]
    /\ prev' = [prev EXCEPT ![p] = IF resp[p].code # 0 THEN resp[p] ELSE @]
    /\ resp' = [resp EXCEPT ![p] = NoResponse]
    /\ text' = [text EXCEPT ![p] = <<>>]
    /\ textChunks' = [textChunks EXCEPT ![p] = <<>>]
    /\ dispatched' = [dispatched EXCEPT ![p] = <<>>]
    /\ tpc' = [tpc EXCEPT ![p] = NoTasks]
    /\ UNCHANGED <<article, procs, clientVars, faulted, page, store, interrupts, statusLocals,
                   tbuf, tmeta, finLocals>>

\* route.ts: env.BLOG_STORAGE.get(audio.mp3); serve it, or ask for the chunk status.
RouteGetComplete(p) ==
    /\ pc[p] = "r_complete"
    /\ IF complete.present
       THEN /\ Answer(p, CachedResponse(complete.bytes))
            /\ UNCHANGED caller
       ELSE /\ pc' = [pc EXCEPT ![p] = "s_complete"]
            /\ caller' = [caller EXCEPT ![p] = "route"]
            /\ UNCHANGED <<resp, st>>
    /\ UNCHANGED <<article, procs, clientVars, faulted, prev, page, store, interrupts, smeta, si, sbufs, genLocals,
                   taskLocals, finLocals>>

\* route.ts: get(article.json), extract the text and call
\* generateAudioResilient, which asks for the chunk status again.
RouteGetArticle(p) ==
    /\ pc[p] = "r_article"
    /\ pc' = [pc EXCEPT ![p] = "s_complete"]
    /\ caller' = [caller EXCEPT ![p] = "gen"]
    /\ text' = [text EXCEPT ![p] = article]
    /\ UNCHANGED <<article, procs, clientVars, faulted, prev, page, store, interrupts, st, smeta, si, sbufs, textChunks,
                   dispatched, taskLocals, finLocals, resp>>

(***************************************************************************)
(* generateAudioResilient: the batch                                       *)
(***************************************************************************)

\* initializeAudioMetadata when the status saw no metadata; then the tasks start.
GenInitialize(p) ==
    /\ pc[p] = "g_init"
    /\ meta' = InitialMetadata(splitTextIntoChunks(text[p]))
    /\ Dispatch(p, st[p])
    /\ UNCHANGED <<article, procs, clientVars, faulted, prev, page, complete, chunks, interrupts, statusLocals, tbuf,
                   tmeta, finLocals, resp>>

\* env.AI.run and validateAudioResponse for chunk i.
TaskSynthesize(p, i) ==
    /\ pc[p] = "g_batch"
    /\ tpc[p][i] = "ai"
    /\ \E response \in AIResponses(textChunks[p][i + 1]) :
          LET v == validateAudioResponse(response)
          IN IF v.ok
             THEN /\ tpc' = [tpc EXCEPT ![p][i] = "store"]
                  /\ tbuf' = [tbuf EXCEPT ![p][i] = v.bytes]
             ELSE /\ tpc' = [tpc EXCEPT ![p][i] = "fail"]
                  /\ UNCHANGED tbuf
    /\ UNCHANGED <<article, procs, clientVars, faulted, prev, page, store, interrupts, pc, statusLocals, genLocals,
                   tmeta, finLocals, resp>>

\* A chunk task that goes on to the metadata update without the put.
TaskStoreChunkSkipped(p, i) ==
    /\ pc[p] = "g_batch"
    /\ tpc[p][i] = "store"
    /\ tpc' = [tpc EXCEPT ![p][i] = "mget"]
    /\ UNCHANGED <<article, procs, clientVars, faulted, prev, page, store, interrupts, pc, statusLocals,
                   genLocals, tbuf, tmeta, finLocals, resp>>

\* storeAudioChunk
TaskStoreChunk(p, i) ==
    /\ pc[p] = "g_batch"
    /\ tpc[p][i] = "store"
    /\ chunks' = [chunks EXCEPT ![i] = Object(tbuf[p][i])]
    /\ tpc' = [tpc EXCEPT ![p][i] = "mget"]
    /\ UNCHANGED <<article, procs, clientVars, faulted, prev, page, complete, meta, interrupts, pc, statusLocals,
                   genLocals, tbuf, tmeta, finLocals, resp>>

\* updateChunkMetadata: bucket.get(audio-metadata.json); throws when absent.
TaskReadMetadata(p, i) ==
    /\ pc[p] = "g_batch"
    /\ tpc[p][i] = "mget"
    /\ IF meta.present
       THEN /\ tmeta' = [tmeta EXCEPT ![p][i] = meta]
            /\ tpc' = [tpc EXCEPT ![p][i] = "mput"]
            /\ UNCHANGED tbuf
       ELSE /\ tpc' = [tpc EXCEPT ![p][i] = "fail"]
            /\ tbuf' = [tbuf EXCEPT ![p][i] = <<>>]
            /\ UNCHANGED tmeta
    /\ UNCHANGED <<article, procs, clientVars, faulted, prev, page, store, interrupts, pc, statusLocals, genLocals,
                   finLocals, resp>>

\* updateChunkMetadata: storeAudioMetadata of the updated copy.
TaskWriteMetadata(p, i) ==
    /\ pc[p] = "g_batch"
    /\ tpc[p][i] = "mput"
    /\ meta' = UpdatedMetadata(tmeta[p][i], i, Len(tbuf[p][i]))
    /\ tpc' = [tpc EXCEPT ![p][i] = "ok"]
    /\ tbuf' = [tbuf EXCEPT ![p][i] = <<>>]
    /\ tmeta' = [tmeta EXCEPT ![p][i] = NoMetadata]
    /\ UNCHANGED <<article, procs, clientVars, faulted, prev, page, complete, chunks, interrupts, pc, statusLocals,
                   genLocals, finLocals, resp>>

\* Every task of the batch has settled.
Settled(p) == \A i \in ChunkIndex : tpc[p][i] \in {"none", "ok", "fail"}

\* Promise.allSettled resolves; the status is asked for again.
GenJoin(p) ==
    /\ pc[p] = "g_batch"
    /\ Settled(p)
    /\ pc' = [pc EXCEPT ![p] = "s_complete"]
    /\ caller' = [caller EXCEPT ![p] = "regen"]
    /\ UNCHANGED <<article, procs, clientVars, faulted, prev, page, store, interrupts, st, smeta, si, sbufs, genLocals,
                   taskLocals, finLocals, resp>>

(***************************************************************************)
(* storeCompleteAudio, one bucket operation per step                       *)
(***************************************************************************)

\* A storeCompleteAudio that skips the put and goes straight to the cleanup.
FinPutCompleteSkipped(p) ==
    /\ pc[p] = "f_put"
    /\ pc' = [pc EXCEPT ![p] = "f_getmeta"]
    /\ UNCHANGED <<article, procs, clientVars, faulted, prev, page, store, interrupts, statusLocals, genLocals,
                   taskLocals, finLocals, resp>>

\* bucket.put(audio.mp3, completeAudio)
FinPutComplete(p) ==
    /\ pc[p] = "f_put"
    /\ complete' = Object(st[p].audio)
    /\ pc' = [pc EXCEPT ![p] = "f_getmeta"]
    /\ UNCHANGED <<article, procs, clientVars, faulted, prev, page, meta, chunks, interrupts, statusLocals, genLocals,
                   taskLocals, finLocals, resp>>

\* getAudioMetadata: without metadata there is nothing to clean up.
FinGetMetadata(p) ==
    /\ pc[p] = "f_getmeta"
    /\ IF meta.present
       THEN /\ ftotal' = [ftotal EXCEPT ![p] = meta.totalChunks]
            /\ fi' = [fi EXCEPT ![p] = 0]
            /\ pc' = [pc EXCEPT ![p] =
                        IF meta.totalChunks > 0 THEN "f_del" ELSE "f_delmeta"]
            /\ UNCHANGED <<resp, st>>
       ELSE /\ Answer(p, GenerationResponse(st[p]))
            /\ UNCHANGED <<ftotal, fi>>
    /\ UNCHANGED <<article, procs, clientVars, faulted, prev, page, store, interrupts, caller, smeta, si, sbufs,
                   genLocals, taskLocals>>

\* A cleanup loop that gives up at the first chunk key that is already gone.
FinDeleteChunkStrict(p) ==
    /\ pc[p] = "f_del"
    /\ IF chunks[fi[p]].present
       THEN /\ chunks' = [chunks EXCEPT ![fi[p]] = NoObject]
            /\ fi' = [fi EXCEPT ![p] = fi[p] + 1]
            /\ pc' = [pc EXCEPT ![p] =
                        IF fi[p] + 1 < ftotal[p] THEN "f_del" ELSE "f_delmeta"]
            /\ UNCHANGED <<resp, st, ftotal>>
       ELSE /\ Answer(p, GenerationResponse(st[p]))
            /\ ftotal' = [ftotal EXCEPT ![p] = 0]
            /\ fi' = [fi EXCEPT ![p] = 0]
            /\ UNCHANGED chunks
    /\ UNCHANGED <<article, procs, clientVars, faulted, prev, page, complete, meta, interrupts, caller, smeta, si, sbufs,
                   genLocals, taskLocals>>

\* bucket.delete(audio-chunk-i.mp3) of the cleanup loop.
FinDeleteChunk(p) ==
    /\ pc[p] = "f_del"
    /\ chunks' = [chunks EXCEPT ![fi[p]] = NoObject]
    /\ fi' = [fi EXCEPT ![p] = fi[p] + 1]
    /\ pc' = [pc EXCEPT ![p] = IF fi[p] + 1 < ftotal[p] THEN "f_del" ELSE "f_delmeta"]
    /\ UNCHANGED <<article, procs, clientVars, faulted, prev, page, complete, meta, interrupts, statusLocals, genLocals,
                   taskLocals, ftotal, resp>>

\* bucket.delete(audio-metadata.json); generateAudioResilient returns.
FinDeleteMetadata(p) ==
    /\ pc[p] = "f_delmeta"
    /\ meta' = NoMetadata
    /\ Answer(p, GenerationResponse(st[p]))
    /\ ftotal' = [ftotal EXCEPT ![p] = 0]
    /\ fi' = [fi EXCEPT ![p] = 0]
    /\ UNCHANGED <<article, procs, clientVars, faulted, prev, page, complete, chunks, interrupts, caller, smeta, si,
                   sbufs, genLocals, taskLocals>>

(***************************************************************************)
(* Interruption                                                            *)
(***************************************************************************)

\* The worker running the request of slot p is stopped between two awaits:
\* nothing more of that request happens and the client gets no response.
Interrupt(p) ==
    /\ pc[p] # "idle"
    /\ interrupts < MaxInterrupts
    /\ interrupts' = interrupts + 1
    /\ Answer(p, NoResponse)
    /\ ftotal' = [ftotal EXCEPT ![p] = 0]
    /\ fi' = [fi EXCEPT ![p] = 0]
    /\ caller' = [caller EXCEPT ![p] = "route"]
    /\ smeta' = [smeta EXCEPT ![p] = NoMetadata]
    /\ si' = [si EXCEPT ![p] = 0]
    /\ sbufs' = [sbufs EXCEPT ![p] = NoBuffers]
    /\ tpc' = [tpc EXCEPT ![p] = NoTasks]
    /\ tbuf' = [tbuf EXCEPT ![p] = NoTaskBuffers]
    /\ tmeta' = [tmeta EXCEPT ![p] = NoTaskMetadata]
    /\ UNCHANGED <<article, procs, clientVars, faulted, prev, page, store, genLocals>>

\* storeCompleteAudio is run once more with the audio it stored, after a run
\* that was stopped during its cleanup or after a run that finished.
FinalizeAgain(p) ==
    /\ p \in procs
    /\ pc[p] \in {"f_getmeta", "f_del", "f_delmeta", "idle"}
    /\ complete.present
    /\ interrupts < MaxInterrupts
    /\ interrupts' = interrupts + 1
    /\ pc' = [pc EXCEPT ![p] = "f_put"]
    /\ st' = [st EXCEPT ![p] = CompleteStatus(complete.bytes)]
    /\ resp' = [resp EXCEPT ![p] = NoResponse]
    /\ ftotal' = [ftotal EXCEPT ![p] = 0]
    /\ fi' = [fi EXCEPT ![p] = 0]
    /\ UNCHANGED <<article, procs, clientVars, faulted, prev, page, store, caller, smeta, si, sbufs, genLocals,
                   taskLocals>>

(***************************************************************************)
(* Bucket operations that fail                                             *)
(***************************************************************************)

\* A bucket.get of getAudioChunkStatus throws: its catch returns the status
\* of an article that was never started.
StatusReadFails(p) ==
    /\ pc[p] \in {"s_complete", "s_meta", "s_chunk"}
    /\ interrupts < MaxInterrupts
    /\ interrupts' = interrupts + 1
    /\ StatusReturn(p, NotStartedStatus)
    /\ UNCHANGED <<article, procs, clientVars, faulted, prev, page, store, caller, tbuf, tmeta,
                   finLocals>>

\* storeAudioChunk throws: the task's catch returns success: false.
TaskStoreFails(p, i) ==
    /\ pc[p] = "g_batch"
    /\ tpc[p][i] = "store"
    /\ interrupts < MaxInterrupts
    /\ interrupts' = interrupts + 1
    /\ faulted' = faulted \cup {i}
    /\ tpc' = [tpc EXCEPT ![p][i] = "fail"]
    /\ tbuf' = [tbuf EXCEPT ![p][i] = <<>>]
    /\ UNCHANGED <<article, procs, clientVars, prev, page, store, pc, statusLocals, genLocals, tmeta,
                   finLocals, resp>>

\* updateChunkMetadata throws, at its get or at its put: the task's catch
\* returns success: false and the chunk artifact stays.
TaskMetadataFails(p, i) ==
    /\ pc[p] = "g_batch"
    /\ tpc[p][i] \in {"mget", "mput"}
    /\ interrupts < MaxInterrupts
    /\ interrupts' = interrupts + 1
    /\ faulted' = faulted \cup {i}
    /\ tpc' = [tpc EXCEPT ![p][i] = "fail"]
    /\ tbuf' = [tbuf EXCEPT ![p][i] = <<>>]
    /\ tmeta' = [tmeta EXCEPT ![p][i] = NoMetadata]
    /\ UNCHANGED <<article, procs, clientVars, prev, page, store, pc, statusLocals, genLocals,
                   finLocals, resp>>

(***************************************************************************)
(* POST /api/debug/parse-article/{slug}                                    *)
(***************************************************************************)

\* The article is parsed again from its raw HTML and article.json is
\* overwritten: later requests extract another text.
ArticleReparsed(parsed) ==
    /\ article = OriginalText
    /\ article' = parsed
    /\ UNCHANGED <<procs, clientVars, faulted, prev, page, store, interrupts, pc, statusLocals, genLocals, taskLocals,
                   finLocals, resp>>

(***************************************************************************)
(* The article page: background processing of a newly parsed article       *)
(***************************************************************************)

\* processArticleInBackground up to the first put of storeArticleData:
\* generateAudio of the page's article has returned audio (ok) or thrown, and
\* article.json is put again.
PageStoreArticle(ok) ==
    /\ page.pc = "background"
    /\ article' = page.article
    /\ page' = [page EXCEPT !.pc = IF ok THEN "put_audio" ELSE "done"]
    /\ UNCHANGED <<procs, clientVars, faulted, prev, store, interrupts, pc, statusLocals,
                   genLocals, taskLocals, finLocals, resp>>

\* storeArticleData with an audioBuffer: audio.mp3 is put.
PageStoreAudio ==
    /\ page.pc = "put_audio"
    /\ complete' = Object(generateAudio(page.article))
    /\ page' = [page EXCEPT !.pc = "done"]
    /\ UNCHANGED <<article, procs, clientVars, faulted, prev, meta, chunks, interrupts, pc,
                   statusLocals, genLocals, taskLocals, finLocals, resp>>

PageStep ==
    \/ \E ok \in BOOLEAN : PageStoreArticle(ok)
    \/ PageStoreAudio

(***************************************************************************)
(* Specifications                                                          *)
(***************************************************************************)

NextRequests ==
    \E p \in Procs :
        \/ StartRequest(p)
        \/ RouteGetComplete(p)
        \/ RouteGetArticle(p)
        \/ StatusGetComplete(p)
        \/ StatusGetMetadata(p)
        \/ StatusGetChunk(p)
        \/ GenInitialize(p)
        \/ \E i \in ChunkIndex : TaskSynthesize(p, i)
        \/ \E i \in ChunkIndex : TaskStoreChunk(p, i)
        \/ \E i \in ChunkIndex : TaskReadMetadata(p, i)
        \/ \E i \in ChunkIndex : TaskWriteMetadata(p, i)
        \/ GenJoin(p)
        \/ FinPutComplete(p)
        \/ FinGetMetadata(p)
        \/ FinDeleteChunk(p)
        \/ FinDeleteMetadata(p)
        \/ Interrupt(p)

\* Requests for the audio of an article whose page is processing it in the
\* background.
Next == NextRequests \/ PageStep

\* Every step of a request except its interruption.
RequestStep(p) ==
    \/ StartRequest(p)
    \/ RouteGetComplete(p)
    \/ RouteGetArticle(p)
    \/ StatusGetComplete(p)
    \/ StatusGetMetadata(p)
    \/ StatusGetChunk(p)
    \/ GenInitialize(p)
    \/ \E i \in ChunkIndex : TaskSynthesize(p, i)
    \/ \E i \in ChunkIndex : TaskStoreChunk(p, i)
    \/ \E i \in ChunkIndex : TaskReadMetadata(p, i)
    \/ \E i \in ChunkIndex : TaskWriteMetadata(p, i)
    \/ GenJoin(p)
    \/ FinPutComplete(p)
    \/ FinGetMetadata(p)
    \/ FinDeleteChunk(p)
    \/ FinDeleteMetadata(p)

NextUninterrupted == \E p \in Procs : RequestStep(p)

\* A synthesis call returns audio.
SynthesisSucceeds ==
    \E p \in Procs : \E i \in ChunkIndex : TaskSynthesize(p, i) /\ tpc'[p][i] = "store"

\* Callers keep re-requesting and every request runs to its response; synthesis
\* that is attempted again and again succeeds eventually.
Fairness ==
    /\ \A p \in Procs : WF_vars(RequestStep(p))
    /\ SF_vars(SynthesisSucceeds)

\* Overlapping requests for one article.
Spec == Init /\ [][Next]_vars

\* Overlapping requests for a one-chunk article, none interrupted, under the
\* fairness above.
SpecLive == InitOne /\ [][NextUninterrupted]_vars /\ Fairness

\* One caller, one request at a time, none interrupted, under the fairness above.
SpecLiveSeq == InitSeq /\ [][NextUninterrupted]_vars /\ Fairness

\* One request at a time.
SpecSeq == InitSeq /\ [][Next]_vars

\* One request at a time, with storeCompleteAudio run again.
NextRefinalize == NextUninterrupted \/ \E p \in Procs : FinalizeAgain(p)
SpecRefinalize == InitSeq /\ [][NextRefinalize]_vars

\* Overlapping requests, none interrupted, while the article is parsed again.
NextReparse == NextUninterrupted \/ ArticleReparsed(TextOne)
SpecReparse == InitReparse /\ [][NextReparse]_vars

\* One request at a time while the article is parsed again.
NextReparseSeq == Next \/ \E parsed \in ReparsedTexts : ArticleReparsed(parsed)
SpecReparseSeq == InitReparseSeq /\ [][NextReparseSeq]_vars

(***************************************************************************)
(* Vocabulary of the properties                                            *)
(***************************************************************************)

\* Every step of a request of a client that compares each response with the
\* one before; no request is cut short.
ClientStep(p) ==
    \/ StartNextRequest(p)
    \/ RouteGetComplete(p)
    \/ RouteGetArticle(p)
    \/ StatusGetComplete(p)
    \/ StatusGetMetadata(p)
    \/ StatusGetChunk(p)
    \/ GenInitialize(p)
    \/ \E i \in ChunkIndex : TaskSynthesize(p, i)
    \/ \E i \in ChunkIndex : TaskStoreChunk(p, i)
    \/ \E i \in ChunkIndex : TaskReadMetadata(p, i)
    \/ \E i \in ChunkIndex : TaskWriteMetadata(p, i)
    \/ GenJoin(p)
    \/ FinPutComplete(p)
    \/ FinGetMetadata(p)
    \/ FinDeleteChunk(p)
    \/ FinDeleteMetadata(p)

NextClients == \E p \in Procs : ClientStep(p)

\* Two clients that request the audio one request after another.
SpecClients == Init /\ [][NextClients]_vars

\* One request at a time; a read of the status check or a write of a chunk
\* task may fail.
NextStorageFaults ==
    \/ NextUninterrupted
    \/ \E p \in Procs : StatusReadFails(p)
    \/ \E p \in Procs : \E i \in ChunkIndex : TaskStoreFails(p, i)
    \/ \E p \in Procs : \E i \in ChunkIndex : TaskMetadataFails(p, i)

SpecStorageFaults == InitSeq /\ [][NextStorageFaults]_vars

(***************************************************************************)
(* The chunker on its own                                                  *)
(***************************************************************************)

\* generateAudioResilient up to `const textChunks = splitTextIntoChunks(text)`,
\* for the text of the article, with the bucket left aside.
SplitText(p) ==
    /\ p \in procs
    /\ pc[p] = "idle"
    /\ pc' = [pc EXCEPT ![p] = "g_split"]
    /\ text' = [text EXCEPT ![p] = article]
    /\ textChunks' = [textChunks EXCEPT ![p] = splitTextIntoChunks(article)]
    /\ UNCHANGED <<article, procs, clientVars, faulted, prev, page, store, interrupts, statusLocals, dispatched,
                   taskLocals, finLocals, resp>>

NextChunker == \E p \in Procs : SplitText(p)

SpecChunker == InitChunker /\ [][NextChunker]_vars

(***************************************************************************)
(* The audio player: AudioPlayer.tsx, loadAudio and its timers             *)
(***************************************************************************)

\* const delays = [30000, 60000, 120000, 300000], in seconds.
RetryDelays == <<30, 60, 120, 300>>

\* retryCount < delays.length ? delays[retryCount] : 300000
RetryDelay(count) ==
    IF count < Len(RetryDelays) THEN RetryDelays[count + 1] ELSE 300

\* What the endpoint may answer to a fetch: 206 partial, 200 complete, or a
\* status that is not ok (a 200 put together from chunks stores no complete
\* audio, so a partial answer or a 500 may follow it).
Answers == {"partial", "complete", "failure"}

\* A call of loadAudio up to `await fetch`: count is the retryCount its
\* closure holds.
Fetch(n, count, isRetry) == [id |-> n, count |-> count, isRetry |-> isRetry]

\* A call of loadAudio between setChunkInfo and the end of `await
\* response.blob()`.
Blob(f, answer) == [id |-> f.id, count |-> f.count, isRetry |-> f.isRetry, answer |-> answer]

PlayerFrame == <<article, procs, faulted, prev, page, store, interrupts, pc, statusLocals, genLocals,
                 taskLocals, finLocals, resp>>

\* The state values a render reads.
Rendering == [retryCount |-> retryCount, chunkInfo |-> chunkInfo, isRetrying |-> isRetrying]

\* The effects of the committed render have not run yet: the mount effect
\* (deps [loadAudio], that is retryCount) or the listener effect (deps
\* [chunkInfo]).
EffectsPending == committed.retryCount # rendered \/ committed.chunkInfo # listener

\* The component mounts; its effect calls loadAudio().
PlayerMount ==
    /\ issued = 0
    /\ issued' = 1
    /\ fetches' = {Fetch(1, retryCount, FALSE)}
    /\ chunkInfo' = "none"
    /\ UNCHANGED <<PlayerFrame, retryCount, retryTimeout, loading, scheduled, completeSeen,
                   rendered, committed, listener, blobs, isRetrying>>

\* The retry timer fires: setRetryCount(prev + 1) and loadAudio(true) of the
\* closure that set the timer.
PlayerTimerFires ==
    /\ retryTimeout.set
    /\ issued < MaxIssued
    /\ retryTimeout' = NoTimeout
    /\ retryCount' = retryCount + 1
    /\ isRetrying' = TRUE
    /\ fetches' = fetches \cup {Fetch(issued + 1, retryTimeout.count, TRUE)}
    /\ issued' = issued + 1
    /\ UNCHANGED <<PlayerFrame, chunkInfo, loading, scheduled, completeSeen, rendered,
                   committed, listener, blobs>>

\* React renders the state updates queued so far and commits: the button and
\* its manualRetry are those of this render.  The effects of the commit before
\* have run by then.
PlayerRender ==
    /\ issued > 0
    /\ ~EffectsPending
    /\ committed # Rendering
    /\ committed' = Rendering
    /\ UNCHANGED <<PlayerFrame, retryCount, retryTimeout, fetches, chunkInfo, loading, issued,
                   scheduled, completeSeen, rendered, listener, blobs, isRetrying>>

\* The effects of the committed render run.  With another retryCount loadAudio
\* has a new identity: the cleanup of the mount effect clears the timer and the
\* effect calls loadAudio().  With another chunkInfo handleLoadedMetadata is
\* registered anew.
PlayerEffectRerun ==
    /\ issued > 0
    /\ EffectsPending
    /\ rendered' = committed.retryCount
    /\ listener' = committed.chunkInfo
    /\ IF committed.retryCount # rendered
       THEN /\ issued < MaxIssued
            /\ retryTimeout' = NoTimeout
            /\ chunkInfo' = "none"
            /\ fetches' = fetches \cup {Fetch(issued + 1, committed.retryCount, FALSE)}
            /\ issued' = issued + 1
       ELSE UNCHANGED <<retryTimeout, chunkInfo, fetches, issued>>
    /\ UNCHANGED <<PlayerFrame, retryCount, loading, scheduled, completeSeen, committed, blobs,
                   isRetrying>>

\* manualRetry of the committed render, the handler of its retry button (shown
\* with partial chunkInfo, disabled while isRetrying): it clears the timer,
\* resets retryCount and calls loadAudio(true) of that render.
PlayerManualRetry ==
    /\ committed.chunkInfo = "partial"
    /\ ~committed.isRetrying
    /\ issued < MaxIssued
    /\ retryTimeout' = NoTimeout
    /\ retryCount' = 0
    /\ isRetrying' = TRUE
    /\ fetches' = fetches \cup {Fetch(issued + 1, committed.retryCount, TRUE)}
    /\ issued' = issued + 1
    /\ UNCHANGED <<PlayerFrame, chunkInfo, loading, scheduled, completeSeen, rendered,
                   committed, listener, blobs>>

\* loadAudio from `await fetch` to `await response.blob()`: a response that is
\* not ok is thrown and caught; otherwise chunkInfo is set from the headers.
PlayerResponse(f, answer) ==
    /\ f \in fetches
    /\ answer \in Answers
    /\ fetches' = fetches \ {f}
    /\ IF answer = "failure"
       THEN /\ isRetrying' = FALSE
            /\ UNCHANGED <<chunkInfo, blobs, completeSeen>>
       ELSE /\ chunkInfo' = answer
            /\ blobs' = blobs \cup {Blob(f, answer)}
            /\ completeSeen' = (completeSeen \/ answer = "complete")
            /\ UNCHANGED isRetrying
    /\ UNCHANGED <<PlayerFrame, retryCount, retryTimeout, loading, issued, scheduled, rendered,
                   committed, listener>>

\* loadAudio after `await response.blob()`: the audio element loads the body,
\* and a partial response replaces the timer by one with the closure's delay.
PlayerBlob(b) ==
    /\ b \in blobs
    /\ blobs' = blobs \ {b}
    /\ loading' = TRUE
    /\ isRetrying' = FALSE
    /\ IF b.answer = "partial"
       THEN /\ retryTimeout' = [set |-> TRUE, delay |-> RetryDelay(b.count),
                                count |-> b.count]
            /\ scheduled' = Append(scheduled, RetryDelay(b.count))
       ELSE UNCHANGED <<retryTimeout, scheduled>>
    /\ UNCHANGED <<PlayerFrame, retryCount, fetches, chunkInfo, issued, completeSeen, rendered,
                   committed, listener>>

\* handleLoadedMetadata as registered: when the chunkInfo it holds is complete
\* it resets retryCount and clears the timer.
PlayerLoadedMetadata ==
    /\ loading
    /\ loading' = FALSE
    /\ IF listener = "complete"
       THEN /\ retryTimeout' = NoTimeout
            /\ retryCount' = 0
       ELSE UNCHANGED <<retryTimeout, retryCount>>
    /\ UNCHANGED <<PlayerFrame, fetches, chunkInfo, issued, scheduled, completeSeen, rendered,
                   committed, listener, blobs, isRetrying>>

NextPlayer ==
    \/ PlayerMount
    \/ PlayerTimerFires
    \/ PlayerRender
    \/ PlayerEffectRerun
    \/ PlayerManualRetry
    \/ \E n \in 1..MaxIssued, count \in 0..MaxIssued, isRetry \in BOOLEAN, answer \in Answers :
            PlayerResponse(Fetch(n, count, isRetry), answer)
    \/ \E n \in 1..MaxIssued, count \in 0..MaxIssued, isRetry \in BOOLEAN, answer \in Answers :
            PlayerBlob(Blob(Fetch(n, count, isRetry), answer))
    \/ PlayerLoadedMetadata

SpecPlayer == InitPlayer /\ [][NextPlayer]_vars

\* The status a getAudioChunkStatus call returns when it runs on the current
\* bucket contents with nothing else in between.
StoreStatus ==
    IF complete.present THEN CompleteStatus(complete.bytes)
    ELSE IF ~meta.present THEN NotStartedStatus
    ELSE ChunkStatus(meta, [i \in ChunkIndex |->
                              IF i < meta.totalChunks THEN chunks[i] ELSE NoObject])

\* The largest k <= total with chunk artifacts 0..k-1 all persisted.
PersistedRun(total) ==
    LET ks == {k \in 0..total : \A i \in 0..(k - 1) : i \in ChunkIndex /\ chunks[i].present}
    IN CHOOSE k \in ks : \A j \in ks : j <= k

\* The bytes of chunk artifacts 0..k-1, in index order.
PersistedPrefix(k) == Flatten([j \in 1..k |-> chunks[j - 1].bytes])

AnyChunkPersisted == \E i \in ChunkIndex : chunks[i].present

(***************************************************************************)
(* Properties                                                              *)
(***************************************************************************)

\* C1: with Metadata present and no Complete Artifact, the audio a status call
\* returns is exactly the in-order concatenation of chunk artifacts 0..k-1 for
\* the largest k with 0..k-1 all persisted (no audio when k = 0).
C1_ContiguousPrefix ==
    (meta.present /\ ~complete.present) =>
        LET k == PersistedRun(meta.totalChunks)
        IN /\ StoreStatus.hasAudio = (k > 0)
           /\ StoreStatus.audio = PersistedPrefix(k)

\* C2: when the batch of an invocation has settled, every dispatched chunk
\* whose task succeeded has its artifact persisted and its index in
\* Metadata.completedChunks, and every chunk that was missing and whose task
\* failed is still missing.
C2_BatchReflected ==
    \A p \in procs :
        (pc[p] = "g_batch" /\ Settled(p)) =>
            \A i \in ChunkIndex :
                /\ tpc[p][i] = "ok" =>
                        /\ chunks[i].present
                        /\ meta.present
                        /\ Includes(meta.completedChunks, i)
                /\ (tpc[p][i] = "fail"
                        /\ (st[p].totalChunks = 0 \/ Includes(st[p].missingChunks, i))) =>
                        ~chunks[i].present

\* The first n elements of a sequence (all of it when shorter).
FirstN(seq, n) == SubSeq(seq, 1, IF Len(seq) < n THEN Len(seq) ELSE n)

\* What the status check of slot p found missing when generation began: every
\* index of the split when no Metadata was found.
MissingAtStart(p) ==
    IF st[p].totalChunks = 0 THEN [k \in 1..Len(textChunks[p]) |-> k - 1]
    ELSE st[p].missingChunks

\* C3: the indices an invocation dispatches are exactly the min(3, number of
\* missing) lowest missing indices; never more than 3.
C3_BoundedDispatch ==
    \A p \in procs :
        pc[p] = "g_batch" => dispatched[p] = FirstN(MissingAtStart(p), 3)

\* The indices below total without a persisted chunk artifact.
MissingInStore(total) == {i \in 0..(total - 1) : ~chunks[i].present}

\* What the code does in place of C3: the step that dispatches takes every
\* index whose chunk artifact is missing, however many (every index of the
\* split when none is missing); there is no cap of 3.
C3_DispatchesAllMissing ==
    [][\A p \in procs :
          (pc[p] # "g_batch" /\ pc'[p] = "g_batch") =>
              LET total == meta'.totalChunks
                  missing == MissingInStore(total)
              IN SeqToSet(dispatched'[p]) =
                    IF missing # {} THEN missing
                    ELSE 0..(Len(textChunks'[p]) - 1)]_vars

\* An invocation has dispatched more than 3 chunks at once.
C3_Witness == \E p \in procs : pc[p] = "g_batch" /\ Len(dispatched[p]) > 3

\* The terminal state: Complete Artifact present, no chunk artifact, no Metadata.
Finalized == complete.present /\ ~AnyChunkPersisted /\ ~meta.present

\* C4: if callers keep re-requesting, storage works, no invocation is
\* interrupted and each chunk's synthesis succeeds on some attempt, the system
\* eventually reaches the terminal state.
C4_EventuallyFinalized == <>Finalized

\* C5: a chunk artifact or the Metadata record is deleted only when the
\* Complete Artifact has been written, and the Complete Artifact stays.
C5_CleanupAfterComplete ==
    [][((\E i \in ChunkIndex : chunks[i].present /\ ~chunks'[i].present)
            \/ (meta.present /\ ~meta'.present))
          => (complete.present /\ complete'.present)]_vars

\* Cleanup is under way: chunk 0 is deleted, a later chunk is still there.
C5_Witness ==
    \E p \in procs :
        /\ pc[p] = "f_del" /\ fi[p] >= 1
        /\ ~chunks[0].present
        /\ \E i \in ChunkIndex : chunks[i].present

\* C6: a request that ran to its response while at least one chunk artifact
\* is persisted is not answered 500; it carries an audio body.
C6_NoHardFailureWithProgress ==
    \A p \in procs :
        (pc[p] = "idle" /\ resp[p].code # 0 /\ AnyChunkPersisted) =>
            (resp[p].code # 500 /\ resp[p].hasBody)

\* The request of slot p answers in this step (it is not interrupted).
RespondsNow(p) == pc[p] # "idle" /\ pc'[p] = "idle" /\ resp'[p].code # 0

\* The status check after the batch of slot p returns in this step.
RestatusReturns(p) ==
    /\ caller[p] = "regen"
    /\ pc[p] \in {"s_complete", "s_meta", "s_chunk"}
    /\ pc'[p] \notin {"s_complete", "s_meta", "s_chunk"}
    /\ interrupts' = interrupts

\* The invocation of slot p dispatched a non-empty batch and every task failed.
AllDispatchedFailed(p) ==
    /\ dispatched[p] # <<>>
    /\ \A i \in ChunkIndex : Includes(dispatched[p], i) => tpc[p][i] = "fail"

\* The hard failure of the claim: 500, no audio, the failed indices, nothing available.
HardFailureListing(r, failed) ==
    /\ r.code = 500
    /\ ~r.hasBody
    /\ r.missingChunks = failed
    /\ r.availableChunks = <<>>

\* C7: when an invocation dispatched a non-empty batch, every dispatched task
\* failed and no chunk artifact exists when it evaluates the outcome, the
\* request is answered with a hard failure listing exactly the failed indices
\* and no available chunk.
C7_TotalFailure ==
    [][\A p \in procs :
          (RestatusReturns(p) /\ AllDispatchedFailed(p) /\ ~AnyChunkPersisted) =>
              (RespondsNow(p) /\ HardFailureListing(resp'[p], dispatched[p]))]_vars

\* C7 as amended: the same, when moreover no Complete Artifact exists (no
\* other invocation has finalized the article in the meantime).
C7_TotalFailureNoComplete ==
    [][\A p \in procs :
          (RestatusReturns(p) /\ AllDispatchedFailed(p) /\ ~AnyChunkPersisted
                /\ ~complete.present) =>
              (RespondsNow(p) /\ HardFailureListing(resp'[p], dispatched[p]))]_vars

\* Both chunks of a two-chunk article were dispatched, both failed, nothing is
\* stored, and the request was answered.
C7_Witness ==
    \E p \in procs :
        /\ pc[p] = "idle" /\ resp[p].code # 0
        /\ dispatched[p] = <<0, 1>>
        /\ tpc[p][0] = "fail" /\ tpc[p][1] = "fail"
        /\ ~AnyChunkPersisted /\ ~complete.present

\* The audio of the whole article: the audio of every chunk of its split, in
\* index order.
FullAudio(wholeText) ==
    LET split == splitTextIntoChunks(wholeText)
    IN Flatten([k \in 1..Len(split) |-> SynthBytes(split[k])])

\* C8: any Complete Artifact that is written equals the concatenation of the
\* audio of all chunks in index order, whatever the interleaving of two
\* invocations that dispatch the same chunks.
C8_CompleteIsWhole == complete.present => complete.bytes = FullAudio(article)

\* Both invocations dispatched chunk 1 of a two-chunk article and the Complete
\* Artifact was written.
C8_Witness ==
    /\ complete.present
    /\ Includes(dispatched[1], 1) /\ Includes(dispatched[2], 1)
    /\ tpc[1][1] = "ok" /\ tpc[2][1] = "ok"

\* C9: once finalization has completed (Complete Artifact present, no chunk
\* artifact, no Metadata), no later step of any invocation creates a chunk
\* artifact or a Metadata record again.
C9_NothingReappears == [][Finalized => Finalized']_vars

\* C10: once a request has been answered while the Complete Artifact exists
\* (in particular the request that follows an invocation interrupted during
\* cleanup), no chunk artifact and no Metadata record remains.
C10_RefinalizedAfterInterrupt ==
    \A p \in procs :
        (pc[p] = "idle" /\ resp[p].code # 0 /\ complete.present) => Finalized

\* Metadata exists and every chunk artifact 0..totalChunks-1 is persisted.
AllChunksPersisted ==
    /\ meta.present
    /\ meta.totalChunks > 0
    /\ \A i \in 0..(meta.totalChunks - 1) : chunks[i].present

\* C11: a request that starts with every chunk artifact persisted and no
\* Complete Artifact (and has only read the bucket up to its answer) has, when
\* it answers, written the Complete Artifact and deleted every chunk artifact
\* and the Metadata, and answers 200 with the complete audio.
C11_CheckChunksFinalizes ==
    [][\A p \in procs :
          (RespondsNow(p) /\ caller[p] = "route" /\ AllChunksPersisted
                /\ ~complete.present) =>
              (Finalized' /\ resp'[p].code = 200)]_vars

\* C12: whenever a run of storeCompleteAudio has ended, be it the first, a
\* second one in a row, or one started after a run that stopped part-way
\* through its cleanup, the bucket is in the terminal state (the Complete
\* Artifact with the whole audio, no chunk artifact, no Metadata) and the
\* request holds the complete audio, not an error.
C12_FinalizeIdempotent ==
    \A p \in procs :
        (pc[p] = "idle" /\ resp[p].code # 0 /\ complete.present) =>
            /\ Finalized
            /\ complete.bytes = FullAudio(article)
            /\ resp[p].code = 200 /\ resp[p].body = complete.bytes

\* storeCompleteAudio was run again and that run has ended.
C12_Witness ==
    \E p \in procs :
        /\ pc[p] = "idle" /\ resp[p].code = 200
        /\ interrupts > 0
        /\ Finalized

\* C13: while the Metadata record exists, no step removes an index from
\* completedChunks.
C13_CompletedOnlyGrows ==
    [][(meta.present /\ meta'.present) =>
          SeqToSet(meta.completedChunks) \subseteq SeqToSet(meta'.completedChunks)]_vars

\* How many times x occurs in a sequence.
Occurrences(seq, x) == Cardinality({k \in 1..Len(seq) : seq[k] = x})

\* The task of slot p for chunk i writes the metadata back in this step.
MarksCompleted(p, i) == tpc[p][i] = "mput" /\ tpc'[p][i] = "ok"

\* C14: an updateChunkMetadata call for an index that the metadata it read
\* already records, with the same size, writes that metadata back unchanged;
\* after any call the index occurs exactly once in completedChunks and the
\* chunkSizes entries of the other indices are those it read.
C14_MarkCompletedIdempotent ==
    [][\A p \in procs : \A i \in ChunkIndex :
          MarksCompleted(p, i) =>
              LET before == tmeta[p][i]
              IN /\ (Includes(before.completedChunks, i)
                        /\ i + 1 <= Len(before.chunkSizes)
                        /\ before.chunkSizes[i + 1] = Len(tbuf[p][i])) => meta' = before
                 /\ Occurrences(meta'.completedChunks, i) = 1
                 /\ \A k \in 1..Len(before.chunkSizes) :
                        k # i + 1 => meta'.chunkSizes[k] = before.chunkSizes[k]]_vars

\* A task is about to write back metadata that already records its index: the
\* other request marked the same chunk completed first.
C14_Witness ==
    \E p \in procs : \E i \in ChunkIndex :
        /\ tpc[p][i] = "mput"
        /\ Includes(tmeta[p][i].completedChunks, i)
        /\ meta = tmeta[p][i]

\* chunkSizes records a size for index i: the entry exists and is neither the
\* initial 0 nor a hole.
SizeRecorded(metadata, i) ==
    i + 1 <= Len(metadata.chunkSizes) /\ metadata.chunkSizes[i + 1] > 0

\* C15: whenever a Metadata record exists, completedChunks lies within
\* 0..totalChunks-1 and has no duplicate, and chunkSizes holds a recorded size
\* for exactly the indices in completedChunks.
C15_MetadataWellFormed ==
    meta.present =>
        /\ \A i \in SeqToSet(meta.completedChunks) :
                /\ i \in 0..(meta.totalChunks - 1)
                /\ Occurrences(meta.completedChunks, i) = 1
        /\ \A i \in ChunkIndex :
                SizeRecorded(meta, i) <=> Includes(meta.completedChunks, i)

\* The indices below total whose chunk artifact is persisted.
PersistedInStore(total) == {i \in 0..(total - 1) : chunks[i].present}

\* The steps of getAudioChunkStatus.
StatusPcs == {"s_complete", "s_meta", "s_chunk"}

\* C16: a request answered from a status computed while Metadata exists and
\* the Complete Artifact is absent reports as available exactly the indices
\* whose chunk artifact is persisted and as missing exactly the others, so
\* that the two counts add up to totalChunks.
C16_AvailableMissingPartition ==
    [][\A p \in procs :
          (RespondsNow(p) /\ pc[p] \in StatusPcs /\ caller[p] = "regen"
                /\ meta.present /\ ~complete.present) =>
              LET r == resp'[p]
              IN /\ SeqToSet(r.availableChunks) = PersistedInStore(meta.totalChunks)
                 /\ SeqToSet(r.missingChunks) = MissingInStore(meta.totalChunks)
                 /\ Len(r.availableChunks) + Len(r.missingChunks) = r.totalChunks]_vars

\* A getAudioChunkStatus call of slot p returns in this step.
StatusReturns(p) ==
    /\ pc[p] \in StatusPcs
    /\ pc'[p] \notin StatusPcs
    /\ interrupts' = interrupts

\* The status handed to the request of slot p by the call that returns in this
\* step, read off what the request does with it: it keeps it, or it answers
\* with it.
ReturnedComplete(p, bytes) ==
    \/ /\ pc'[p] = "f_put"
       /\ st'[p].isComplete /\ st'[p].missingChunks = <<>> /\ st'[p].audio = bytes
    \/ /\ pc'[p] = "idle"
       /\ resp'[p].code = 200 /\ resp'[p].audioStatus = "complete"
       /\ resp'[p].missingChunks = <<>> /\ resp'[p].body = bytes

\* C17: a status call that finds the Complete Artifact returns isComplete, an
\* empty missing list and that artifact's bytes as the audio, whatever chunk
\* artifacts and Metadata are there.
C17_CompleteTakesPriority ==
    [][\A p \in procs :
          (StatusReturns(p) /\ pc[p] = "s_complete" /\ complete.present) =>
              ReturnedComplete(p, complete.bytes)]_vars

\* A status call found the Complete Artifact while chunk artifacts and
\* Metadata were still there, and the request finalizes again with its bytes.
C17_Witness ==
    \E p \in procs :
        /\ pc[p] = "f_put" /\ caller[p] = "regen"
        /\ complete.present /\ st[p].audio = complete.bytes
        /\ st[p].availableChunks = <<>> /\ st[p].totalChunks = 1
        /\ meta.present /\ AnyChunkPersisted

\* The request of slot p takes its first step, the route's read of audio.mp3.
RouteReadsComplete(p) ==
    pc[p] = "r_complete" /\ pc'[p] # "r_complete" /\ interrupts' = interrupts

\* C18: a request that starts when the Complete Artifact exists returns that
\* artifact with HTTP 200 and status complete, issues no synthesis call and
\* puts or deletes nothing: the artifact stays in the bucket until the route
\* reads it, and the read answers at once and leaves the bucket as it was.
C18_CachedRequestChangesNothing ==
    [][/\ complete.present => complete'.present
       /\ \A p \in procs :
             (RouteReadsComplete(p) /\ complete.present) =>
                 /\ pc'[p] = "idle"
                 /\ resp'[p].code = 200
                 /\ resp'[p].audioStatus = "complete"
                 /\ resp'[p].hasBody /\ resp'[p].body = complete.bytes
                 /\ tpc'[p] = NoTasks /\ dispatched'[p] = <<>>
                 /\ store' = store]_vars

C18_Witness ==
    \E p \in procs :
        /\ pc[p] = "idle" /\ resp[p].code = 200 /\ resp[p].availableChunks = <<0>>
        /\ resp[p].totalChunks = 1 /\ resp[p].body = complete.bytes
        /\ complete.present /\ meta.present /\ meta.totalChunks > 1
        /\ AnyChunkPersisted

\* generateAudioResilient of slot p maps over the missing chunks of a status
\* that found Metadata (it did not pass through initializeAudioMetadata).
DispatchesOnExistingMetadata(p) ==
    /\ pc[p] \in StatusPcs /\ caller[p] = "gen" /\ pc'[p] = "g_batch"
    /\ meta.present

\* C19: when a Metadata record already exists, the text synthesized for each
\* dispatched index i is Metadata.textChunks[i], also when the text argument
\* of the retry differs from the text the record was made from.
C19_SynthesizesRecordedText ==
    [][\A p \in procs :
          DispatchesOnExistingMetadata(p) =>
              \A k \in 1..Len(dispatched'[p]) :
                  LET i == dispatched'[p][k]
                  IN tpc'[p][i] = "ai" =>
                        /\ i + 1 <= Len(meta.textChunks)
                        /\ textChunks'[p][i + 1] = meta.textChunks[i + 1]]_vars

\* generateAudioResilient of slot p calls initializeAudioMetadata.
Initializes(p) ==
    pc[p] = "g_init" /\ pc'[p] # "g_init" /\ interrupts' = interrupts

\* C20: initializing Metadata over an existing record with a different
\* totalChunks fails: the stored record is left as it was and the caller
\* does not go on to dispatch chunk tasks.
C20_InitializeNeverOverwrites ==
    [][\A p \in procs :
          (/\ Initializes(p)
           /\ meta.present
           /\ meta.totalChunks # Len(splitTextIntoChunks(text[p]))) =>
              (meta' = meta /\ pc'[p] # "g_batch")]_vars

\* The characters of s that are not whitespace, in order.
WithoutWhitespace(s) ==
    LET keep == {k \in 1..Len(s) : s[k] \notin Whitespace}
        At(n) == CHOOSE k \in keep : Cardinality({x \in keep : x <= k}) = n
    IN [n \in 1..Cardinality(keep) |-> s[At(n)]]

\* The request of slot p has split its text.
SplitDone(p) == pc[p] = "g_split"

\* C21: the chunks of a text, concatenated, reproduce the text in order up to
\* whitespace; nothing is dropped, a trailing run without terminal
\* punctuation included.
C21_ChunksReproduceText ==
    \A p \in procs :
        SplitDone(p) =>
            WithoutWhitespace(Flatten(textChunks[p])) = WithoutWhitespace(text[p])

\* The sentences splitTextIntoChunks iterates over that are not empty.
NonEmptySentences(wholeText) == SelectSeq(Sentences(wholeText), LAMBDA s : s # <<>>)

\* chunkList is made of whole sentences: each chunk is the trimmed
\* concatenation of a run of consecutive sentences, and the runs follow one
\* another and cover all the sentences.
MadeOfWholeSentences(chunkList, sentences) ==
    LET c == Len(chunkList)
        n == Len(sentences)
    IN \E b \in [0..c -> 0..n] :
          /\ b[0] = 0 /\ b[c] = n
          /\ \A k \in 1..c :
                /\ b[k - 1] < b[k]
                /\ chunkList[k] = Trim(Flatten(SubSeq(sentences, b[k - 1] + 1, b[k])))

\* chunk is one sentence that is by itself longer than MAX_CHUNK_SIZE.
OversizedSentence(chunk, sentences) ==
    \E k \in 1..Len(sentences) :
        Len(sentences[k]) > MAX_CHUNK_SIZE /\ chunk = Trim(sentences[k])

\* C22: the chunks are a function of the text alone; every chunk is at most
\* MAX_CHUNK_SIZE long unless it is a single sentence that is itself longer;
\* no sentence is split across two chunks.
C22_ChunkLengthBound ==
    \A p \in procs :
        SplitDone(p) =>
            /\ textChunks[p] = splitTextIntoChunks(text[p])
            /\ \A k \in 1..Len(textChunks[p]) :
                  \/ Len(textChunks[p][k]) <= MAX_CHUNK_SIZE
                  \/ OversizedSentence(textChunks[p][k], NonEmptySentences(text[p]))
            /\ MadeOfWholeSentences(textChunks[p], NonEmptySentences(text[p]))

C22_Witness ==
    \E p \in procs :
        /\ SplitDone(p)
        /\ Len(textChunks[p]) >= 2
        /\ \E k \in 1..Len(textChunks[p]) : Len(textChunks[p][k]) > MAX_CHUNK_SIZE

\* The request of slot p has answered with an audio body.
AnsweredWithAudio(p) == pc[p] = "idle" /\ resp[p].code # 0 /\ resp[p].hasBody

\* The complete audio of the article in any version of its text: the text
\* stored now, the text first parsed, or a text that parsing it again gives.
CompleteAudios == {FullAudio(t) : t \in {article, OriginalText} \cup ReparsedTexts}

\* C23: a response is 200 with X-Audio-Status complete and the long-lived
\* cache header only when its body is the complete audio of the article, all
\* chunks in order; every response whose body is not the complete audio is
\* 206 with X-Audio-Status partial and the short-lived cache header.
C23_CompleteHeadersOnlyOnCompleteAudio ==
    \A p \in procs :
        AnsweredWithAudio(p) =>
            /\ (resp[p].code = 200 \/ resp[p].audioStatus = "complete"
                    \/ resp[p].cacheControl = "long") =>
                  resp[p].body \in CompleteAudios
            /\ resp[p].body \notin CompleteAudios =>
                  /\ resp[p].code = 206
                  /\ resp[p].audioStatus = "partial"
                  /\ resp[p].cacheControl = "short"

\* One request answered 206 with an incomplete prefix and another answered
\* 200 with the complete audio.
C23_Witness ==
    \E p, q \in procs :
        /\ AnsweredWithAudio(p) /\ resp[p].code = 206
        /\ resp[p].body # <<>> /\ resp[p].body # FullAudio(article)
        /\ AnsweredWithAudio(q) /\ resp[q].code = 200
        /\ resp[q].body = FullAudio(article)

\* C24: the timer the player sets after its k-th partial response has the
\* k-th delay of the schedule 30 s, 60 s, 120 s, 300 s (300 s thereafter), so
\* no two retries are the same interval apart before 300 s is reached; once
\* the player has received a complete response it sends no further request.
C24_RetrySchedule ==
    [][/\ scheduled' # scheduled =>
            scheduled'[Len(scheduled')] =
                (IF Len(scheduled) < 4 THEN <<30, 60, 120, 300>>[Len(scheduled) + 1]
                 ELSE 300)
       /\ completeSeen => issued' = issued]_vars

\* Every index in completedChunks has its chunk artifact in the bucket.
CompletedArePersisted ==
    \A k \in 1..Len(meta.completedChunks) :
        /\ meta.completedChunks[k] \in ChunkIndex
        /\ chunks[meta.completedChunks[k]].present

\* C25: while Metadata exists and the Complete Artifact is absent, every index
\* in completedChunks has its chunk artifact in the bucket; a chunk artifact
\* is deleted only when the Complete Artifact has been written.
C25_CompletedChunksPersisted ==
    [][/\ (meta'.present /\ ~complete'.present) => CompletedArePersisted'
       /\ \A i \in ChunkIndex :
             (chunks[i].present /\ ~chunks'[i].present) => complete.present]_vars

C25_Witness ==
    /\ meta.present /\ ~complete.present
    /\ Len(meta.completedChunks) >= 2
    /\ \E p \in procs : \E i \in ChunkIndex : tpc[p][i] = "mput"

\* generateAudioResilient of slot p starts its chunk tasks.
Dispatches(p) == pc[p] # "g_batch" /\ pc'[p] = "g_batch"

\* C26: an invocation makes at most one synthesis call per chunk index (a
\* task starts only when the batch is dispatched, once per index), and it
\* dispatches only indices its status check reported missing, none whose
\* chunk artifact was persisted when it checked.
C26_OnlyMissingSynthesizedOnce ==
    [][\A p \in procs :
          /\ \A i \in ChunkIndex :
                (tpc'[p][i] = "ai" /\ tpc[p][i] # "ai") => Dispatches(p)
          /\ Dispatches(p) =>
                /\ \A k, l \in 1..Len(dispatched'[p]) :
                      dispatched'[p][k] = dispatched'[p][l] => k = l
                /\ \A k \in 1..Len(dispatched'[p]) :
                      ~chunks[dispatched'[p][k]].present
                /\ st'[p].totalChunks > 0 =>
                      SeqToSet(dispatched'[p]) \subseteq SeqToSet(st'[p].missingChunks)]_vars

\* C27: an index whose chunk put or metadata update failed is, by the time the
\* Complete Artifact is written, both persisted as a chunk artifact and
\* recorded in completedChunks.
C27_FailedWriteIsRetried ==
    [][(~complete.present /\ complete'.present) =>
          \A i \in faulted :
              /\ chunks[i].present
              /\ meta.present /\ Includes(meta.completedChunks, i)]_vars

\* C28: a status that says isComplete carries audio, and that audio is the
\* in-order concatenation of all chunks; a request never holds a status with
\* isComplete and no audio.
C28_CompleteHasAudio ==
    \A p \in procs :
        st[p].isComplete =>
            /\ st[p].hasAudio
            /\ st[p].audio = FullAudio(article)

\* C29: the orchestrator never initializes Metadata over an existing record,
\* also not after a status check whose read failed: the record keeps its
\* totalChunks, completedChunks and textChunks.
C29_ReadFailureKeepsProgress ==
    [][\A p \in procs :
          (Initializes(p) /\ meta.present) =>
              /\ meta'.totalChunks = meta.totalChunks
              /\ meta'.completedChunks = meta.completedChunks
              /\ meta'.textChunks = meta.textChunks]_vars

\* How many leading chunks of the article the body of response r covers.
Covered(r) ==
    LET split == splitTextIntoChunks(article)
        Leading(k) == Flatten([j \in 1..k |-> SynthBytes(split[j])])
        fits == {k \in 0..Len(split) :
                    /\ Len(Leading(k)) <= Len(r.body)
                    /\ SubSeq(r.body, 1, Len(Leading(k))) = Leading(k)}
    IN IF ~r.hasBody THEN 0 ELSE CHOOSE k \in fits : \A l \in fits : l <= k

\* C30: for a client that requests the audio one request after another, a
\* response covers no fewer leading chunks than the response before it, and a
\* response with audio is not followed by a hard failure.
C30_ResponsesNeverRegress ==
    \A p \in procs :
        (resp[p].code # 0 /\ prev[p].code # 0) =>
            /\ Covered(resp[p]) >= Covered(prev[p])
            /\ prev[p].hasBody => resp[p].code # 500

====
